---------------------------- MODULE Spec2Model ----------------------------
(***************************************************************************)
(* A model of src/teaching_pipeline.py: class Pipeline, whose pipe()       *)
(* extracts parameters from a free-text message with regular expressions,  *)
(* POSTs them to a generation endpoint and renders the returned            *)
(* teaching_note as markdown, at once or as a generator of chunks.         *)
(*                                                                         *)
(* Text is a sequence of characters.  TLA+ strings are ASCII here, so each *)
(* CJK character is written as one token:                                  *)
(*   guan yu 关于      de jiao xue 的教学     zhi shi_k dian 知识点          *)
(*   sheng cheng 生成  shi_u yong 使用        jiao xue fa 教学法             *)
(*   fang fa 方法      cai yong 采用          nan du 难度                    *)
(*   ji bie 级别       wei 为   shi_b 是      fw: the full-width colon ：    *)
(*   liu shi_s 流式    gao ji 高级  jian suo 检索                            *)
(*   wang luo 网络     sou suo 搜索           lian wang 联网                 *)
(*   dq the double quote, sq the single quote, niu dun 牛顿 (plain text)    *)
(* A literal piece of an f-string that no pattern looks into is one token  *)
(* as well (TitleMid, Heading[i], NotGenerated, ...).                      *)
(***************************************************************************)
EXTENDS Integers, Sequences, FiniteSets, TLC

VARIABLES message,          \* pipe's user_message
          response,         \* what the remote endpoint answers to a POST
          knowledge_point,  \* pipe's local, later the generator's argument
          teaching_method,
          difficulty,
          extracted,        \* which extractors have been applied (ExtractSpec)
          calls,            \* invocations of pipe so far
          ret,              \* what the latest pipe call returned
          prev_ret,         \* what the call before it returned
          posted,           \* payloads POSTed by the latest invocation
          raised,           \* exception that reached the caller, or None
          gpc,              \* the generator's suspension point
          gsec,             \* section being emitted (1..7), 0 before
          glines,           \* content.split('\n') of that section
          gline,            \* index of the line last yielded
          chunks,           \* chunks the consumer has received
          cancelled         \* the consumer stopped pulling

vars == <<message, response, knowledge_point, teaching_method, difficulty,
          extracted, calls, ret, prev_ret, posted, raised, gpc, gsec, glines,
          gline, chunks, cancelled>>

-----------------------------------------------------------------------------
(* Bounds *)

\* most lines in one teaching_note field of a modelled response
MaxLines == 2
\* most invocations of pipe in one behaviour
MaxCalls == 2
\* most digits in the number of a difficulty phrase of a modelled message
MaxDigits == 2

-----------------------------------------------------------------------------
(* Characters and strings *)

\* Python's None, and a present value v
None == <<>>
Some(v) == <<v>>

Space == {" ", "\n"}
Quote == {"dq", "sq"}
Digit == {"3", "4", "5"}
Chars == {"guan", "yu", "de", "jiao", "xue", "zhi", "shi_k", "dian", "sheng",
          "cheng", "shi_u", "yong", "fa", "fang", "cai", "nan", "du", "ji",
          "bie", "wei", "shi_b", ":", "fw:", "liu", "shi_s", "gao", "jian",
          "suo", "wang", "luo", "sou", "lian", "niu", "dun", "x",
          "s", "t", "r", "e", "a", "m", "S", "o", "p", "n", "i", "R", "A", "G"}
         \cup Space \cup Quote \cup Digit
\* what "." matches: any character but the newline (no re.DOTALL)
Dot == Chars \ {"\n"}

RECURSIVE Concat(_)
Concat(ss) == IF ss = <<>> THEN <<>> ELSE Head(ss) \o Concat(Tail(ss))

\* str.lower() on the characters of the model
LowerChar(c) ==
  CASE c = "S" -> "s" [] c = "R" -> "r" [] c = "A" -> "a" [] c = "G" -> "g"
    [] OTHER -> c
Lower(s) == [k \in 1..Len(s) |-> LowerChar(s[k])]

\* Python's  sub in s
Contains(s, sub) ==
  \E k \in 0..(Len(s) - Len(sub)) : SubSeq(s, k + 1, k + Len(sub)) = sub

\* str.strip(): leading and trailing whitespace removed
RECURSIVE LStrip(_)
LStrip(s) == IF s # <<>> /\ Head(s) \in Space THEN LStrip(Tail(s)) ELSE s
RECURSIVE RStrip(_)
RStrip(s) ==
  IF s # <<>> /\ s[Len(s)] \in Space THEN RStrip(SubSeq(s, 1, Len(s) - 1)) ELSE s
Strip(s) == RStrip(LStrip(s))

\* str.split('\n'): the pieces between newlines, always at least one
RECURSIVE SplitFrom(_, _)
SplitFrom(s, cur) ==
  IF s = <<>> THEN <<cur>>
  ELSE IF Head(s) = "\n" THEN <<cur>> \o SplitFrom(Tail(s), <<>>)
  ELSE SplitFrom(Tail(s), Append(cur, Head(s)))
Split(s) == SplitFrom(s, <<>>)

-----------------------------------------------------------------------------
(* Regular expressions: re.search with Python's backtracking order.        *)
(* A pattern is a sequence of elements; "open"/"close" delimit group 1.    *)

Lit(c)   == [k |-> "lit",  s |-> {c}]   \* one given character
Cls(cs)  == [k |-> "lit",  s |-> cs]    \* [...]
Opt(cs)  == [k |-> "opt",  s |-> cs]    \* [...]?   greedy
Lazy     == [k |-> "lazy", s |-> Dot]   \* .*?
Star(cs) == [k |-> "star", s |-> cs]    \* \s*      greedy
Plus(cs) == [k |-> "plus", s |-> cs]    \* \d+      greedy
Open     == [k |-> "open", s |-> {}]
Close    == [k |-> "close", s |-> {}]
Lits(w)  == [k \in 1..Len(w) |-> Lit(w[k])]

NoMatch == [ok |-> FALSE, gs |-> 0, ge |-> 0]

\* match elements i.. of p against m from position j; gs..ge-1 is group 1
RECURSIVE MatchHere(_, _, _, _)
MatchHere(p, i, m, j) ==
  IF i > Len(p) THEN [ok |-> TRUE, gs |-> 0, ge |-> 0]
  ELSE
    LET e    == p[i]
        here == j <= Len(m) /\ m[j] \in e.s
    IN CASE e.k = "open" ->
              LET r == MatchHere(p, i + 1, m, j) IN
              IF r.ok THEN [r EXCEPT !.gs = j] ELSE r
         [] e.k = "close" ->
              LET r == MatchHere(p, i + 1, m, j) IN
              IF r.ok THEN [r EXCEPT !.ge = j] ELSE r
         [] e.k = "lit" ->
              IF here THEN MatchHere(p, i + 1, m, j + 1) ELSE NoMatch
         [] e.k = "opt" ->
              LET take == IF here THEN MatchHere(p, i + 1, m, j + 1) ELSE NoMatch IN
              IF take.ok THEN take ELSE MatchHere(p, i + 1, m, j)
         [] e.k = "lazy" ->
              LET skip == MatchHere(p, i + 1, m, j) IN
              IF skip.ok THEN skip
              ELSE IF here THEN MatchHere(p, i, m, j + 1) ELSE NoMatch
         [] e.k = "star" ->
              LET more == IF here THEN MatchHere(p, i, m, j + 1) ELSE NoMatch IN
              IF more.ok THEN more ELSE MatchHere(p, i + 1, m, j)
         [] e.k = "plus" ->
              IF ~here THEN NoMatch
              ELSE LET more == MatchHere(p, i, m, j + 1) IN
                   IF more.ok THEN more ELSE MatchHere(p, i + 1, m, j + 1)

\* re.search(p, m): the match at the leftmost position that has one
RECURSIVE SearchFrom(_, _, _)
SearchFrom(p, m, j) ==
  IF j > Len(m) + 1 THEN NoMatch
  ELSE LET r == MatchHere(p, 1, m, j) IN
       IF r.ok THEN r ELSE SearchFrom(p, m, j + 1)
Search(p, m) == SearchFrom(p, m, 1)

\* match.group(1)
Group1(m, r) == SubSeq(m, r.gs, r.ge - 1)

-----------------------------------------------------------------------------
(* Parameter extraction *)

GuanYu      == <<"guan", "yu">>
DeJiaoXue   == <<"de", "jiao", "xue">>
ZhiShiDian  == <<"zhi", "shi_k", "dian">>
ShengCheng  == <<"sheng", "cheng">>
ShiYong     == <<"shi_u", "yong">>
CaiYong     == <<"cai", "yong">>
JiaoXueFa   == <<"jiao", "xue", "fa">>
JiaoXueFangFa == <<"jiao", "xue", "fang", "fa">>
NanDu       == <<"nan", "du">>
Colons      == {":", "fw:"}

\* r'关于["\']?(.*?)[\'"]?的教学'
KpAbout == Lits(GuanYu) \o <<Opt(Quote), Open, Lazy, Close, Opt(Quote)>> \o Lits(DeJiaoXue)
\* r'知识点[：:]\s*[\"\'"]?(.*?)[\"\'"]?'
KpLabel == Lits(ZhiShiDian)
           \o <<Cls(Colons), Star(Space), Opt(Quote), Open, Lazy, Close, Opt(Quote)>>
\* r'生成(.*?)的教学'
KpGenerate == Lits(ShengCheng) \o <<Open, Lazy, Close>> \o Lits(DeJiaoXue)
KpPatterns == <<KpAbout, KpLabel, KpGenerate>>

\* r'使用[\"\'"]?(.*?教学法)[\"\'"]?'
TmUsing == Lits(ShiYong) \o <<Opt(Quote), Open, Lazy>> \o Lits(JiaoXueFa)
           \o <<Close, Opt(Quote)>>
\* r'教学方法[：:]\s*[\"\'"]?(.*?)[\"\'"]?'
TmLabel == Lits(JiaoXueFangFa)
           \o <<Cls(Colons), Star(Space), Opt(Quote), Open, Lazy, Close, Opt(Quote)>>
\* r'采用[\"\'"]?(.*?教学法)[\"\'"]?'
TmAdopting == Lits(CaiYong) \o <<Opt(Quote), Open, Lazy>> \o Lits(JiaoXueFa)
              \o <<Close, Opt(Quote)>>
TmPatterns == <<TmUsing, TmLabel, TmAdopting>>

\* r'难度[级别]?[为是:：]?\s*(\d+)'
DifficultyPattern ==
  Lits(NanDu) \o <<Opt({"ji", "bie"}), Opt({"wei", "shi_b", ":", "fw:"}),
                   Star(Space), Open, Plus(Digit), Close>>

\* for pattern in patterns: the first that matches returns group(1).strip()
RECURSIVE FirstMatch(_, _)
FirstMatch(patterns, m) ==
  IF patterns = <<>> THEN None
  ELSE LET r == Search(Head(patterns), m) IN
       IF r.ok THEN Some(Strip(Group1(m, r)))
       ELSE FirstMatch(Tail(patterns), m)

extract_knowledge_point(m) == FirstMatch(KpPatterns, m)
extract_teaching_method(m) == FirstMatch(TmPatterns, m)
\* the digits as matched, no strip; "3" when nothing matches
extract_difficulty(m) ==
  LET r == Search(DifficultyPattern, m) IN
  IF r.ok THEN Group1(m, r) ELSE <<"3">>

\* Python's truth of an Optional[str]: None and '' are false
Truthy(v) == v # None /\ v[1] # <<>>
\* {v} in an f-string, v an Optional[str]: str(v)
StrOf(v) == IF v = None THEN <<"None">> ELSE v[1]

-----------------------------------------------------------------------------
(* Feature flags (pipe, lines 43-45 and 62) *)

api_type(m) ==
  IF Contains(Lower(m), <<"o", "p", "e", "n", "a", "i">>) THEN "openai" ELSE "ollama"
use_advanced_rag(m) ==
  Contains(m, <<"gao", "ji", "R", "A", "G">>) \/ Contains(m, <<"gao", "ji", "jian", "suo">>)
use_web_search(m) ==
  Contains(m, <<"wang", "luo", "sou", "suo">>) \/ Contains(m, <<"lian", "wang">>)
\* the test without .lower()
stream_mode_case_sensitive(m) ==
  Contains(m, <<"s", "t", "r", "e", "a", "m">>) \/ Contains(m, <<"liu", "shi_s">>)
stream_mode(m) ==
  Contains(Lower(m), <<"s", "t", "r", "e", "a", "m">>) \/ Contains(m, <<"liu", "shi_s">>)

\* the test with "and" for "or"
MissingParameters_both(kp, tm) == ~Truthy(kp) /\ ~Truthy(tm)
\* if not knowledge_point or not teaching_method
MissingParameters(kp, tm) == ~Truthy(kp) \/ ~Truthy(tm)

Payload(m, kp, tm, diff) ==
  [knowledge_point  |-> kp,
   teaching_method  |-> tm,
   difficulty       |-> diff,
   api_type         |-> api_type(m),
   use_advanced_rag |-> use_advanced_rag(m),
   use_web_search   |-> use_web_search(m)]

-----------------------------------------------------------------------------
(* The remote endpoint's answers *)

\* the seven teaching_note keys, in the order pipe and _stream_response read them:
\* 教学大纲 教学重点 教学难点 教学引入设计 教学重点讲解设计 教学难点突破设计 参考资料
\* the third section emitted before the second
Heading_swapped == <<"JiaoXueDaGang", "JiaoXueNanDian", "JiaoXueZhongDian",
                     "JiaoXueYinRuSheJi", "JiaoXueZhongDianJiangJieSheJi",
                     "JiaoXueNanDianTuPoSheJi", "CanKaoZiLiao">>
Heading == <<"JiaoXueDaGang", "JiaoXueZhongDian", "JiaoXueNanDian",
             "JiaoXueYinRuSheJi", "JiaoXueZhongDianJiangJieSheJi",
             "JiaoXueNanDianTuPoSheJi", "CanKaoZiLiao">>
Sections == 1..Len(Heading)

\* a field of teaching_note: not there, a JSON string, or JSON null
Absent    == [t |-> "absent", v |-> <<>>]
Null      == [t |-> "null",   v |-> <<>>]
Text(s)   == [t |-> "text",   v |-> s]

\* texts of at most MaxLines lines, each line empty or "A"
RECURSIVE TextsOfLines(_)
TextsOfLines(n) ==
  IF n = 1 THEN {<<>>, <<"A">>}
  ELSE {t \o <<"\n">> \o l : t \in TextsOfLines(n - 1), l \in {<<>>, <<"A">>}}
Texts == UNION {TextsOfLines(n) : n \in 1..MaxLines}
FieldVals == {Absent, Null} \cup {Text(s) : s \in Texts}

\* teaching_note values: every field the same but one
Notes ==
  {[i \in Sections |-> IF i = d THEN v ELSE base] :
     base \in {Absent, Text(<<"A">>)}, d \in Sections, v \in FieldVals}

NoJson   == [t |-> "invalid", has_note |-> FALSE, note |-> [t |-> "null", m |-> <<>>]]
JsonList == [t |-> "list", has_note |-> FALSE, note |-> [t |-> "null", m |-> <<>>]]
JsonObj(has, note) == [t |-> "obj", has_note |-> has, note |-> note]
NoteNull == [t |-> "null", m |-> <<>>]
NoteMap(m) == [t |-> "map", m |-> m]

Bodies == {<<"b1">>, <<"b2">>}
Responses ==
  \* requests.post raises (no connection)
  {[exc |-> TRUE, status_code |-> 0, text |-> <<>>, json |-> NoJson]}
  \* a status other than 200, with a body
  \cup {[exc |-> FALSE, status_code |-> c, text |-> b, json |-> NoJson] :
          c \in {201, 500}, b \in Bodies}
  \* status 200: not JSON, a JSON list, an object without teaching_note,
  \* "teaching_note": null, and a teaching_note mapping
  \cup {[exc |-> FALSE, status_code |-> 200, text |-> <<"raw">>, json |-> j] :
          j \in {NoJson, JsonList, JsonObj(FALSE, NoteNull), JsonObj(TRUE, NoteNull)}
                \cup {JsonObj(TRUE, NoteMap(n)) : n \in Notes}}

\* result = response.json(); teaching_note = result.get("teaching_note", {})
ParseTeachingNote(resp) ==
  CASE resp.json.t = "invalid" -> [exc |-> Some("JSONDecodeError"), note |-> NoteNull]
    [] resp.json.t = "list" ->
         [exc |-> Some("AttributeError: 'list' object has no attribute 'get'"),
          note |-> NoteNull]
    [] OTHER ->
         [exc |-> None,
          note |-> IF resp.json.has_note THEN resp.json.note
                   ELSE NoteMap([i \in Sections |-> Absent])]

NotGenerated == "WeiShengCheng"              \* 未生成
NoReferences == "WeiTiGongCanKaoZiLiao"      \* 未提供参考资料
\* one placeholder for every section
Placeholder_same(i) == <<NotGenerated>>
Placeholder(i) == IF i = Len(Heading) THEN <<NoReferences>> ELSE <<NotGenerated>>

\* teaching_note.get(key, placeholder)
NoteGet(note, i) ==
  IF note.t # "map"
  THEN [exc |-> Some("AttributeError: 'NoneType' object has no attribute 'get'"),
        val |-> Null]
  ELSE [exc |-> None,
        val |-> IF note.m[i].t = "absent" THEN Text(Placeholder(i)) ELSE note.m[i]]

-----------------------------------------------------------------------------
(* Rendering *)

\* what pipe returns: a string, or the generator _stream_response(...)
Str(s) == [kind |-> "str", val |-> s]
Gen    == [kind |-> "gen", val |-> <<>>]
NoRet  == [kind |-> "none", val |-> <<>>]

\* 请提供完整的信息，包括知识点和教学方法。例如：'...'
Guidance == <<"QingTiGongWanZhengDeXinXi">>
TitleMid == " JiaoXueSheJi ("                \* " 教学设计 ("
TitleEnd == "ji)"                            \* "级)"
FailedPrefix == "ShengChengJiaoXueNeiRongShiBai: "   \* "生成教学内容失败: "
CrossMark == "[x] "                          \* the cross mark and a space

Title(kp, diff) == <<"# ">> \o StrOf(kp) \o <<TitleMid>> \o diff \o <<TitleEnd>>

\* {value} in an f-string: str(value)
FormatValue(v) == IF v.t = "text" THEN v.v ELSE <<"None">>

\* the f-string formatted_result, teaching_note being a mapping
FormatResult(kp, diff, note) ==
  Title(kp, diff) \o <<"\n">>
  \o Concat([i \in Sections |->
               <<"\n", "## ", Heading[i], "\n">>
               \o FormatValue(NoteGet(note, i).val) \o <<"\n">>])

\* except Exception as e: in pipe
PipeExcept(e) ==
  [ret |-> Str(<<"ChuLiQingQiuShiChuCuo: ", e, "\n", "\n",
                 "XiangXiCuoWuXinXi: ", "Traceback", e>>),
   raised |-> None]

\* the non-streaming branch of pipe, from the POST on
BatchResponse(kp, diff, resp) ==
  IF resp.exc THEN PipeExcept("ConnectionError")
  ELSE IF resp.status_code = 200
  THEN LET p == ParseTeachingNote(resp) IN
       IF p.exc # None THEN PipeExcept(p.exc[1])
       ELSE IF NoteGet(p.note, 1).exc # None
       THEN PipeExcept(NoteGet(p.note, 1).exc[1])
       ELSE [ret |-> Str(FormatResult(kp, diff, p.note)), raised |-> None]
  ELSE [ret |-> Str(<<FailedPrefix>> \o resp.text), raised |-> None]

\* the chunks of _stream_response
TitleChunk(kp, diff) == Title(kp, diff) \o <<"\n", "\n">>
WaitChunk == <<"ZhengZaiShengChengJiaoXueNeiRong, QingShaoHou...", "\n", "\n">>
RetrievingChunk(kp) ==
  <<"[magnifier] ZhengZaiJianSuoYu [">> \o StrOf(kp) \o <<"] XiangGuanDeZhiShi...", "\n">>
ReadyChunk == <<"[check] ZhiShiJianSuoWanCheng!", "\n", "\n">>
HeadingChunk(i) == <<"## ", Heading[i], "\n">>
LineChunk(l) == l \o <<"\n">>
BlankChunk == <<"\n">>
CompletionChunk == <<"\n", "[sparkles] JiaoXueNeiRongShengChengWanCheng!">>
\* the error chunk without the response body
FailChunk_no_body(resp) == <<CrossMark, FailedPrefix>>
FailChunk(resp) == <<CrossMark, FailedPrefix>> \o resp.text

\* no except clause: the exception leaves the generator
StreamExcept_reraise(e) == [chunk |-> None, pc |-> "error", raised |-> Some(e)]
\* except Exception as e: in _stream_response: one chunk, then the end
StreamExcept(e) ==
  [chunk |-> Some(<<CrossMark, "LiuShiShuChuGuoChengZhongChuCuo: ", e, "\n", "\n",
                    "XiangXiCuoWuXinXi: ", "Traceback", e>>),
   pc |-> "error", raised |-> None]

\* the same without the return after the failure chunk
StreamInvoke_no_return(resp) ==
  IF resp.exc THEN StreamExcept("ConnectionError")
  ELSE IF resp.status_code # 200
  THEN [chunk |-> Some(FailChunk(resp)), pc |-> "ok", raised |-> None]
  ELSE LET p == ParseTeachingNote(resp) IN
       IF p.exc # None THEN StreamExcept(p.exc[1])
       ELSE [chunk |-> Some(ReadyChunk), pc |-> "ok", raised |-> None]
\* from the POST to the chunk that follows it
StreamInvoke(resp) ==
  IF resp.exc THEN StreamExcept("ConnectionError")
  ELSE IF resp.status_code # 200
  THEN [chunk |-> Some(FailChunk(resp)), pc |-> "failed", raised |-> None]
  ELSE LET p == ParseTeachingNote(resp) IN
       IF p.exc # None THEN StreamExcept(p.exc[1])
       ELSE [chunk |-> Some(ReadyChunk), pc |-> "ok", raised |-> None]

\* content = teaching_note.get(key, placeholder); content.split('\n')
SectionLines(resp, i) ==
  LET g == NoteGet(ParseTeachingNote(resp).note, i) IN
  IF g.exc # None THEN [exc |-> g.exc, lines |-> <<>>]
  ELSE IF g.val.t # "text"
  THEN [exc |-> Some("AttributeError: 'NoneType' object has no attribute 'split'"),
        lines |-> <<>>]
  ELSE [exc |-> None, lines |-> Split(g.val.v)]

-----------------------------------------------------------------------------
(* The messages of the model *)

NiuDun == <<"niu", "dun">>
\* 关于牛顿的教学 / 关于的教学 / nothing about a knowledge point
PipeKpParts == {GuanYu \o NiuDun \o DeJiaoXue, GuanYu \o DeJiaoXue, <<>>}
\* 使用x教学法 / nothing about a method
PipeTmParts == {ShiYong \o <<"x">> \o JiaoXueFa, <<>>}
\* 难度为5 / no difficulty
PipeDiffParts == {NanDu \o <<"wei", "5">>, <<>>}
\* Stream / 流式 / no request for streaming
PipeStreamParts == {<<"S", "t", "r", "e", "a", "m">>, <<"liu", "shi_s">>, <<>>}
PipeMessages ==
  {k \o t \o d \o st : k \in PipeKpParts, t \in PipeTmParts,
                       d \in PipeDiffParts, st \in PipeStreamParts}
  \* 生成关于牛顿的教学 使用x教学法 openai 高级RAG 联网
  \cup {ShengCheng \o GuanYu \o NiuDun \o DeJiaoXue \o <<" ">> \o ShiYong \o <<"x">>
        \o JiaoXueFa \o <<" ", "o", "p", "e", "n", "a", "i", " ", "gao", "ji", "R",
                          "A", "G", " ", "lian", "wang">>}

\* what may stand between a phrase's words and its X
Deco == {<<>>, <<"dq">>, <<"sq">>, <<" ">>, <<" ", "dq">>, <<"dq", " ">>}
Cores == {NiuDun, <<"x">>, <<>>}
RECURSIVE DigitStrings(_)
DigitStrings(n) ==
  IF n = 0 THEN {<<>>}
  ELSE DigitStrings(n - 1)
       \cup {Append(ds, c) : ds \in DigitStrings(n - 1) \ {<<>>}, c \in Digit}
       \cup {<<c>> : c \in Digit}

\* 关于 a X b 的教学, alone, after 生成, before more text
AboutMessages ==
  {pre \o GuanYu \o a \o x \o b \o DeJiaoXue \o post :
     pre \in {<<>>, ShengCheng}, post \in {<<>>, <<"x">>},
     a \in Deco, b \in Deco, x \in Cores}
\* 知识点：X and 教学方法：X, also followed by a phrase of a later pattern
LabelMessages ==
  {lab \o <<c>> \o ws \o x \o post :
     lab \in {ZhiShiDian, JiaoXueFangFa}, c \in Colons, ws \in {<<>>, <<" ">>},
     x \in Cores,
     post \in {<<>>, <<" ">> \o ShengCheng \o NiuDun \o DeJiaoXue,
               <<" ">> \o CaiYong \o <<"x">> \o JiaoXueFa}}
\* 生成X的教学, 使用 a X教学法 b, 采用X教学法
OtherPhraseMessages ==
  {ShengCheng \o x \o DeJiaoXue : x \in Cores}
  \cup {w \o a \o x \o JiaoXueFa \o b :
          w \in {ShiYong, CaiYong}, a \in Deco, b \in Deco, x \in Cores}
\* 难度 [级别|级|别] [为|是|:|：] [space] N
DifficultyMessages ==
  {NanDu \o lvl \o sep \o ws \o n :
     lvl \in {<<>>, <<"ji", "bie">>, <<"ji">>, <<"bie">>},
     sep \in {<<>>, <<"wei">>, <<"shi_b">>, <<":">>, <<"fw:">>},
     ws \in {<<>>, <<" ">>}, n \in DigitStrings(MaxDigits)}
\* help_text's example: 请生成关于牛顿的教学内容，使用x教学法，难度级别为4
HelpExample ==
  ShengCheng \o GuanYu \o NiuDun \o DeJiaoXue \o <<" ">> \o ShiYong \o <<"x">>
  \o JiaoXueFa \o <<" ">> \o NanDu \o <<"ji", "bie", "wei", "4">>
ExtractMessages ==
  AboutMessages \cup LabelMessages \cup OtherPhraseMessages
  \cup DifficultyMessages \cup {HelpExample, <<>>, <<"x">>, NiuDun}

-----------------------------------------------------------------------------
(* The state machine *)

NoResponse == [exc |-> TRUE, status_code |-> 0, text |-> <<>>, json |-> NoJson]

InitCommon ==
  /\ knowledge_point = None
  /\ teaching_method = None
  /\ difficulty = <<>>
  /\ extracted = {}
  /\ calls = 0
  /\ ret = NoRet
  /\ prev_ret = NoRet
  /\ posted = <<>>
  /\ raised = None
  /\ gpc = "none"
  /\ gsec = 0
  /\ glines = <<>>
  /\ gline = 0
  /\ chunks = <<>>
  /\ cancelled = FALSE

\* Pipeline(): no request yet; the message and the endpoint's answer are inputs
Init ==
  /\ message \in PipeMessages
  /\ response \in Responses
  /\ InitCommon

genvars == <<gsec, glines, gline>>
invars  == <<message, response>>
callvars == <<knowledge_point, teaching_method, difficulty, extracted, calls,
              ret, prev_ret>>

\* the generator is suspended at a yield, or not yet started
Suspended == gpc \in {"start", "title", "wait", "retrieving", "ok", "head", "line",
                      "blank", "complete", "failed", "error"}
\* no invocation is in progress
Idle == calls = 0 \/ ret.kind # "gen" \/ ~Suspended \/ cancelled

\* pipe(user_message, ...): the whole call
Pipe ==
  /\ Idle
  /\ calls < MaxCalls
  /\ LET kp   == extract_knowledge_point(message)
         tm   == extract_teaching_method(message)
         diff == extract_difficulty(message)
     IN /\ knowledge_point' = kp
        /\ teaching_method' = tm
        /\ difficulty' = diff
        /\ IF MissingParameters(kp, tm)
           THEN /\ ret' = Str(Guidance)
                /\ raised' = None
                /\ posted' = <<>>
                /\ gpc' = "none"
           ELSE IF stream_mode(message)
           THEN /\ ret' = Gen
                /\ raised' = None
                /\ posted' = <<>>
                /\ gpc' = "start"
           ELSE LET r == BatchResponse(kp, diff, response) IN
                /\ ret' = r.ret
                /\ raised' = r.raised
                /\ posted' = <<Payload(message, kp, tm, diff)>>
                /\ gpc' = "none"
  /\ extracted' = {"kp", "tm", "diff"}
  /\ calls' = calls + 1
  /\ prev_ret' = ret
  /\ gsec' = 0
  /\ glines' = <<>>
  /\ gline' = 0
  /\ chunks' = <<>>
  /\ cancelled' = FALSE
  /\ UNCHANGED invars

\* one next() on the generator: runs to the next yield
Running(pc) == ret.kind = "gen" /\ gpc = pc /\ ~cancelled

\* the outcome r of a stretch of code that may raise: its chunk, where it stops
Deliver(r) ==
  /\ chunks' = IF r.chunk = None THEN chunks ELSE Append(chunks, r.chunk[1])
  /\ gpc' = IF r.raised = None THEN r.pc ELSE "aborted"
  /\ raised' = r.raised

PullTitle ==
  /\ Running("start")
  /\ chunks' = Append(chunks, TitleChunk(knowledge_point, difficulty))
  /\ gpc' = "title"
  /\ UNCHANGED <<invars, callvars, genvars, posted, raised, cancelled>>

PullWait ==
  /\ Running("title")
  /\ chunks' = Append(chunks, WaitChunk)
  /\ gpc' = "wait"
  /\ UNCHANGED <<invars, callvars, genvars, posted, raised, cancelled>>

PullRetrieving ==
  /\ Running("wait")
  /\ chunks' = Append(chunks, RetrievingChunk(knowledge_point))
  /\ gpc' = "retrieving"
  /\ UNCHANGED <<invars, callvars, genvars, posted, raised, cancelled>>

\* time.sleep(1); requests.post(...); the status check; response.json()
PullInvoke ==
  /\ Running("retrieving")
  /\ posted' = Append(posted, Payload(message, knowledge_point, teaching_method,
                                      difficulty))
  /\ Deliver(StreamInvoke(response))
  /\ UNCHANGED <<invars, callvars, genvars, cancelled>>

\* yield "## <heading>\n"
PullHeading ==
  /\ Running("ok") \/ Running("blank")
  /\ gsec' = gsec + 1
  /\ chunks' = Append(chunks, HeadingChunk(gsec + 1))
  /\ gpc' = "head"
  /\ UNCHANGED <<invars, callvars, glines, gline, posted, raised, cancelled>>

\* content = teaching_note.get(...); the first turn of for line in content.split('\n')
PullFirstLine ==
  /\ Running("head")
  /\ LET c == SectionLines(response, gsec) IN
     IF c.exc # None
     THEN /\ Deliver(StreamExcept(c.exc[1]))
          /\ UNCHANGED <<glines, gline>>
     ELSE /\ glines' = c.lines
          /\ gline' = 1
          /\ chunks' = Append(chunks, LineChunk(c.lines[1]))
          /\ gpc' = "line"
          /\ raised' = raised
  /\ UNCHANGED <<invars, callvars, gsec, posted, cancelled>>

\* a later turn of the loop
PullNextLine ==
  /\ Running("line")
  /\ gline < Len(glines)
  /\ gline' = gline + 1
  /\ chunks' = Append(chunks, LineChunk(glines[gline + 1]))
  /\ UNCHANGED <<invars, callvars, gsec, glines, gpc, posted, raised, cancelled>>

\* yield "\n" after the lines of each section but the last
PullBlank ==
  /\ Running("line")
  /\ gline = Len(glines)
  /\ gsec < Len(Heading)
  /\ chunks' = Append(chunks, BlankChunk)
  /\ gpc' = "blank"
  /\ UNCHANGED <<invars, callvars, genvars, posted, raised, cancelled>>

\* the completion marker, after the lines of the last section
PullCompletion ==
  /\ Running("line")
  /\ gline = Len(glines)
  /\ gsec = Len(Heading)
  /\ chunks' = Append(chunks, CompletionChunk)
  /\ gpc' = "complete"
  /\ UNCHANGED <<invars, callvars, genvars, posted, raised, cancelled>>

\* the generator returns: StopIteration, no chunk
PullEnd ==
  /\ Running("complete") \/ Running("failed") \/ Running("error")
  /\ gpc' = IF gpc = "complete" THEN "done_closed" ELSE "failed_closed"
  /\ UNCHANGED <<invars, callvars, genvars, chunks, posted, raised, cancelled>>

Pull ==
  \/ PullTitle
  \/ PullWait
  \/ PullRetrieving
  \/ PullInvoke
  \/ PullHeading
  \/ PullFirstLine
  \/ PullNextLine
  \/ PullBlank
  \/ PullCompletion
  \/ PullEnd

\* the consumer stops pulling at a chunk boundary
Cancel ==
  /\ ret.kind = "gen"
  /\ Suspended
  /\ ~cancelled
  /\ cancelled' = TRUE
  /\ UNCHANGED <<invars, callvars, genvars, gpc, chunks, posted, raised>>

Next == Pipe \/ Pull \/ Cancel

Spec == Init /\ [][Next]_vars

\* a consumer that is not cancelled keeps calling next()
FairSpec == Spec /\ WF_vars(Pull)

-----------------------------------------------------------------------------
(* The extractors on their own *)

InitExtract ==
  /\ message \in ExtractMessages
  /\ response = NoResponse
  /\ InitCommon

ExtractKnowledgePoint ==
  /\ "kp" \notin extracted
  /\ knowledge_point' = extract_knowledge_point(message)
  /\ extracted' = extracted \cup {"kp"}
  /\ UNCHANGED <<invars, teaching_method, difficulty, calls, ret, prev_ret, posted,
                 raised, gpc, genvars, chunks, cancelled>>

ExtractTeachingMethod ==
  /\ "tm" \notin extracted
  /\ teaching_method' = extract_teaching_method(message)
  /\ extracted' = extracted \cup {"tm"}
  /\ UNCHANGED <<invars, knowledge_point, difficulty, calls, ret, prev_ret, posted,
                 raised, gpc, genvars, chunks, cancelled>>

ExtractDifficulty ==
  /\ "diff" \notin extracted
  /\ difficulty' = extract_difficulty(message)
  /\ extracted' = extracted \cup {"diff"}
  /\ UNCHANGED <<invars, knowledge_point, teaching_method, calls, ret, prev_ret,
                 posted, raised, gpc, genvars, chunks, cancelled>>

NextExtract == ExtractKnowledgePoint \/ ExtractTeachingMethod \/ ExtractDifficulty

ExtractSpec == InitExtract /\ [][NextExtract]_vars

-----------------------------------------------------------------------------
(* What the properties below speak of *)

Called == calls >= 1
ValidParameters == Called /\ Truthy(knowledge_point) /\ Truthy(teaching_method)

\* the message asks for streaming: it holds 流式, or "stream" in any case
RequestsStreaming ==
  \E i \in 1..Len(message) :
    \/ /\ i + 1 <= Len(message)
       /\ message[i] = "liu" /\ message[i + 1] = "shi_s"
    \/ /\ i + 5 <= Len(message)
       /\ message[i] \in {"s", "S"} /\ message[i + 1] = "t" /\ message[i + 2] = "r"
       /\ message[i + 3] = "e" /\ message[i + 4] = "a" /\ message[i + 5] = "m"

\* the endpoint answered, with a status other than 200
NonOkStatus == ~response.exc /\ response.status_code # 200

\* the fixed order of the section headings
FixedOrder == <<"JiaoXueDaGang", "JiaoXueZhongDian", "JiaoXueNanDian",
                "JiaoXueYinRuSheJi", "JiaoXueZhongDianJiangJieSheJi",
                "JiaoXueNanDianTuPoSheJi", "CanKaoZiLiao">>

IsSectionHeading(c) == Len(c) = 3 /\ c[1] = "## " /\ c[3] = "\n"
IsCompletionMarker(c) == c = <<"\n", "[sparkles] JiaoXueNeiRongShengChengWanCheng!">>
IsErrorChunk(c) == c # <<>> /\ c[1] = "[x] "
IsFailureChunk(c) ==
  IsErrorChunk(c) /\ Len(c) >= 2 /\ c[2] = "ShengChengJiaoXueNeiRongShiBai: "
IsExceptionChunk(c) ==
  IsErrorChunk(c) /\ Len(c) >= 2 /\ c[2] = "LiuShiShuChuGuoChengZhongChuCuo: "
HeadingsEmitted == SelectSeq(chunks, IsSectionHeading)
Last(q) == q[Len(q)]

\* the sequence has been consumed to its end
Exhausted == gpc \in {"done_closed", "failed_closed"}

\* C1: when knowledge_point or teaching_method is absent or empty, pipe returns
\* the guidance string as a plain value, POSTs nothing and yields no chunk,
\* whether or not the message asks for streaming.
C1_MissingParametersGuidance ==
  Called /\ (~Truthy(knowledge_point) \/ ~Truthy(teaching_method))
    => /\ ret = Str(<<"QingTiGongWanZhengDeXinXi">>)
       /\ posted = <<>>
       /\ gpc = "none"
       /\ chunks = <<>>
       /\ raised = None

\* a streaming request with a knowledge point and no method got the guidance
C1_Witness ==
  /\ Called /\ RequestsStreaming
  /\ Truthy(knowledge_point) /\ teaching_method = None
  /\ ret.kind = "str"

\* C2: on a status other than 200 with body B, batch mode returns exactly
\* '生成教学内容失败: ' + B; the consumed stream ends with a single error chunk
\* holding B, and holds no section heading and no completion marker.
C2_GenerationFailed ==
  ValidParameters /\ NonOkStatus
    => /\ ~RequestsStreaming
            => ret = Str(<<"ShengChengJiaoXueNeiRongShiBai: ">> \o response.text)
       /\ RequestsStreaming
            => /\ ret = Gen
               /\ \A k \in 1..Len(chunks) :
                    ~IsSectionHeading(chunks[k]) /\ ~IsCompletionMarker(chunks[k])
               /\ Exhausted
                    => /\ chunks # <<>>
                       /\ IsFailureChunk(Last(chunks))
                       /\ Contains(Last(chunks), response.text)
                       /\ Len(SelectSeq(chunks, IsErrorChunk)) = 1

C2_Witness ==
  /\ ValidParameters /\ NonOkStatus /\ RequestsStreaming
  /\ gpc = "failed_closed"
  /\ response.text = <<"b2">>

\* the generator has been returned and no next() has run yet
StreamStarted == ret.kind = "gen" /\ gpc = "start"

\* C3: a consumer that keeps pulling reaches the end of the stream (Done or
\* Failed) after finitely many chunks, whatever the response; the section
\* headings emitted are a prefix of the fixed order, each at most once.
C3_StreamTerminatesInOrder ==
  /\ [](/\ Len(HeadingsEmitted) <= Len(FixedOrder)
        /\ \A k \in 1..Len(HeadingsEmitted) : HeadingsEmitted[k][2] = FixedOrder[k]
        /\ Len(chunks) <= 4 + Len(FixedOrder) * (MaxLines + 2))
  /\ StreamStarted ~> (Exhausted \/ cancelled)

\* a stream consumed to Done with all seven headings and a two-line section
C3_Witness ==
  /\ gpc = "done_closed"
  /\ Len(HeadingsEmitted) = Len(FixedOrder)
  /\ \E k \in 1..Len(chunks) - 2 :
       /\ IsSectionHeading(chunks[k]) /\ chunks[k][2] = "JiaoXueNanDian"
       /\ chunks[k + 1] = <<"A", "\n">> /\ chunks[k + 2] = <<"A", "\n">>

\* what makes the code raise: no connection, a 200 body that is not a JSON
\* object, a teaching_note that is null; in a stream also a field that is null
RaisesBeforeSections(resp) ==
  \/ resp.exc
  \/ resp.status_code = 200 /\ resp.json.t # "obj"
RaisesInBatch(resp) ==
  \/ RaisesBeforeSections(resp)
  \/ /\ resp.status_code = 200 /\ resp.json.t = "obj"
     /\ resp.json.has_note /\ resp.json.note.t = "null"
RaisesInSection(resp, i) ==
  /\ ~resp.exc /\ resp.status_code = 200 /\ resp.json.t = "obj" /\ resp.json.has_note
  /\ \/ resp.json.note.t = "null"
     \/ resp.json.note.t = "map" /\ resp.json.note.m[i].t = "null"
RaisesInStream(resp) ==
  RaisesBeforeSections(resp) \/ \E i \in 1..Len(FixedOrder) : RaisesInSection(resp, i)

\* C4: no exception reaches the caller.  In batch mode a failing POST, JSON
\* parse or rendering gives an error string; in a stream an exception at any
\* point, also inside a section, gives one final error chunk, after which the
\* sequence ends without a completion marker.
C4_NoExceptionPropagates ==
  /\ raised = None
  /\ ValidParameters /\ ~RequestsStreaming /\ RaisesInBatch(response)
       => /\ ret.kind = "str"
          /\ ret.val[1] = "ChuLiQingQiuShiChuCuo: "
  /\ ValidParameters /\ RequestsStreaming
       => /\ \A k \in 1..Len(chunks) :
               IsExceptionChunk(chunks[k])
                 => k = Len(chunks) /\ gpc \in {"error", "failed_closed"}
          /\ Exhausted /\ RaisesInStream(response)
               => /\ gpc = "failed_closed"
                  /\ chunks # <<>>
                  /\ IsExceptionChunk(Last(chunks))
                  /\ \A k \in 1..Len(chunks) : ~IsCompletionMarker(chunks[k])

\* a stream that raised inside its third section and was consumed to the end
C4_Witness ==
  /\ ValidParameters /\ RequestsStreaming
  /\ gpc = "failed_closed"
  /\ RaisesInSection(response, 3) /\ response.json.note.t = "map"
  /\ Len(HeadingsEmitted) = 3

\* a status-200 answer whose body is a JSON object, its teaching_note (if any)
\* a mapping
WellFormed(resp) ==
  /\ ~resp.exc /\ resp.status_code = 200 /\ resp.json.t = "obj"
  /\ resp.json.has_note => resp.json.note.t = "map"

\* the text a section shows: the field's text (null prints as None), or the
\* placeholder: 未提供参考资料 for the last section, 未生成 for the others
ShownText(resp, i) ==
  LET f == IF resp.json.has_note THEN resp.json.note.m[i] ELSE [t |-> "absent", v |-> <<>>]
  IN CASE f.t = "text" -> f.v
       [] f.t = "null" -> <<"None">>
       [] OTHER -> IF i = 7 THEN <<"WeiTiGongCanKaoZiLiao">> ELSE <<"WeiShengCheng">>

\* the lines of the batch output: the title, then per section an empty line,
\* the heading line and the lines of its text; the text ends with a newline
RECURSIVE SectionBlocks(_, _)
SectionBlocks(resp, i) ==
  IF i > Len(FixedOrder) THEN <<>>
  ELSE <<<<>>, <<"## ", FixedOrder[i]>>>> \o Split(ShownText(resp, i))
       \o SectionBlocks(resp, i + 1)
ExpectedLines(resp) ==
  <<<<"# ">> \o knowledge_point[1] \o <<" JiaoXueSheJi (">> \o difficulty \o <<"ji)">>>>
  \o SectionBlocks(resp, 1) \o << <<>> >>

\* C8: batch mode on a status-200 answer gives the title line and the seven
\* sections in the fixed order, each heading line immediately followed by the
\* field's text or its placeholder; without a teaching_note key all seven are
\* placeholders; a second invocation gives the same output.
C8_BatchRendering ==
  ValidParameters /\ ~RequestsStreaming /\ WellFormed(response)
    => /\ ret.kind = "str"
       /\ Split(ret.val) = ExpectedLines(response)
       /\ calls >= 2 => prev_ret = ret

\* the second of two invocations on {"teaching_note": {"教学大纲": "A"}}
C8_Witness ==
  /\ ValidParameters /\ ~RequestsStreaming /\ WellFormed(response)
  /\ calls = 2
  /\ response.json.has_note
  /\ response.json.note.m = [i \in 1..7 |-> IF i = 1 THEN Text(<<"A">>) ELSE Absent]
  /\ difficulty = <<"5">>

\* C9: an invocation POSTs at most once.  Batch mode with valid parameters
\* POSTs exactly once.  In a stream pipe itself POSTs nothing; the POST comes
\* after the title, please-wait and retrieving chunks and before any section
\* heading, and a consumer that stops within the first three chunks causes none.
C9_SinglePost ==
  /\ Len(posted) <= 1
  /\ ValidParameters /\ ~RequestsStreaming => Len(posted) = 1
  /\ ValidParameters /\ RequestsStreaming
       => /\ ret = Gen
          /\ Len(chunks) <= 3 => posted = <<>>
          /\ posted # <<>>
               => /\ Len(chunks) >= 4
                  /\ chunks[1] = TitleChunk(knowledge_point, difficulty)
                  /\ chunks[2] = WaitChunk
                  /\ chunks[3] = RetrievingChunk(knowledge_point)
                  /\ \A k \in 1..3 : ~IsSectionHeading(chunks[k])
          /\ HeadingsEmitted # <<>> => Len(posted) = 1
          /\ Len(chunks) >= 4 => Len(posted) = 1

\* the consumer stopped after the third chunk and nothing was POSTed
C9_Witness ==
  /\ ValidParameters /\ RequestsStreaming
  /\ cancelled /\ Len(chunks) = 3 /\ posted = <<>>

\* the state of the streaming state machine at a suspension point: what the
\* generator does next
St(name, i) == [s |-> name, i |-> i]
StateAt(pc, sec) ==
  CASE pc \in {"start", "title"} -> St("Announcing", 0)
    [] pc = "wait" -> St("Retrieving", 0)
    [] pc = "retrieving" -> St("Invoking", 0)
    [] pc \in {"ok", "blank"} -> St("EmittingSection", sec + 1)
    [] pc \in {"head", "line"} -> St("EmittingSection", sec)
    [] pc \in {"complete", "done_closed"} -> St("Done", 0)
    [] pc \in {"failed", "error", "failed_closed", "aborted"} -> St("Failed", 0)
    [] OTHER -> St("NoStream", 0)
State == StateAt(gpc, gsec)
\* a step of the invocation in progress, seen as a transition from a to b
StreamStep(a, b) == calls' = calls /\ ret.kind = "gen" /\ a = State /\ b = State'
EarlyOrder(a, b) ==
  /\ a.s = "Announcing" => b.s \in {"Announcing", "Retrieving"}
  /\ a.s = "Retrieving" => b.s \in {"Retrieving", "Invoking"}
  /\ a.s = "Invoking" => b = a \/ b = St("EmittingSection", 1) \/ b.s = "Failed"
  /\ b.s = "Done" /\ a.s # "Done" => a = St("EmittingSection", 7)
  /\ a.s \in {"Done", "Failed"} => b = a /\ chunks' = chunks

\* C10 as stated: the states follow one another in the listed order, Failed is
\* entered only from Invoking, Done only from EmittingSection(7), every run
\* that reaches EmittingSection(1) goes on through the sections to Done, and
\* no chunk follows Done or Failed.
C10_AsStated ==
  [][\A a, b \in {State, State'} :
       StreamStep(a, b)
         => /\ EarlyOrder(a, b)
            /\ b.s = "Failed" /\ a.s # "Failed" => a.s = "Invoking"
            /\ a.s = "EmittingSection"
                 => \/ b = a
                    \/ b = St("EmittingSection", a.i + 1)
                    \/ a.i = 7 /\ b.s = "Done"]_vars

\* C10, amended: Failed is entered from Invoking, on a status other than 200
\* or an exception, or from EmittingSection(i) when reading that section's
\* content raises; Done is entered only from EmittingSection(7); a run that
\* reaches EmittingSection(1) and is pulled on goes through the sections in
\* order to Done, or to Failed when a section raises; no chunk follows Done or
\* Failed.
C10_StateMachine ==
  /\ [][\A a, b \in {State, State'} :
          StreamStep(a, b)
            => /\ EarlyOrder(a, b)
               /\ a.s = "Invoking" /\ b # a
                    => (b.s = "Failed"
                          <=> NonOkStatus \/ RaisesBeforeSections(response))
               /\ b.s = "Failed" /\ a.s # "Failed"
                    => \/ a.s = "Invoking"
                       \/ a.s = "EmittingSection" /\ RaisesInSection(response, a.i)
               /\ a.s = "EmittingSection"
                    => \/ b = a
                       \/ b = St("EmittingSection", a.i + 1)
                       \/ a.i = 7 /\ b.s = "Done"
                       \/ b.s = "Failed" /\ RaisesInSection(response, a.i)]_vars
  /\ (ret.kind = "gen" /\ State.s = "EmittingSection")
       ~> \/ cancelled
          \/ State.s = "Done"
          \/ State.s = "Failed" /\ \E i \in 1..7 : RaisesInSection(response, i)

\* Failed entered from EmittingSection(2), after the second heading
C10_Witness ==
  /\ ret.kind = "gen" /\ gpc = "error" /\ gsec = 2
  /\ Len(HeadingsEmitted) = 2
  /\ IsExceptionChunk(Last(chunks))

-----------------------------------------------------------------------------
(* The extractors as specified *)

\* 难度, then 级别 or nothing, then one of 为 是 : ： or nothing, then
\* whitespace or none, then the digits N
PhraseWithLevel ==
  Lits(<<"nan", "du", "ji", "bie">>)
  \o <<Opt({"wei", "shi_b", ":", "fw:"}), Star(Space), Open, Plus(Digit), Close>>
PhraseWithoutLevel ==
  Lits(<<"nan", "du">>)
  \o <<Opt({"wei", "shi_b", ":", "fw:"}), Star(Space), Open, Plus(Digit), Close>>
HasDifficultyPhrase(m) ==
  Search(PhraseWithLevel, m).ok \/ Search(PhraseWithoutLevel, m).ok
PhraseNumber(m) ==
  IF Search(PhraseWithLevel, m).ok THEN Group1(m, Search(PhraseWithLevel, m))
  ELSE Group1(m, Search(PhraseWithoutLevel, m))

\* C5: difficulty extraction returns N for a message with the phrase
\* 难度 [级别] [为|是|:|：] [whitespace] N, so 5 for 难度为5 and 4 for the
\* documented 难度级别为4, and "3" for a message that does not speak of 难度.
C5_DifficultyAsStated ==
  "diff" \in extracted
    => /\ HasDifficultyPhrase(message) => difficulty = PhraseNumber(message)
       /\ ~Contains(message, <<"nan", "du">>) => difficulty = <<"3">>

\* the text between the first 关于 and the first 的教学 after it
AboutPhrase == Lits(<<"guan", "yu">>) \o <<Open, Lazy, Close>> \o Lits(<<"de", "jiao", "xue">>)
RECURSIVE Unwrap(_)
Unwrap(x) ==
  IF x # <<>> /\ Head(x) \in {"dq", "sq", " ", "\n"} THEN Unwrap(Tail(x))
  ELSE IF x # <<>> /\ x[Len(x)] \in {"dq", "sq", " ", "\n"}
  THEN Unwrap(SubSeq(x, 1, Len(x) - 1))
  ELSE x

\* C6: for a message holding 关于X的教学, knowledge_point extraction yields X
\* without the quotes and whitespace around it, however they are placed.
C6_AboutAsStated ==
  "kp" \in extracted /\ Search(AboutPhrase, message).ok
    => knowledge_point =
         Some(Unwrap(Group1(message, Search(AboutPhrase, message))))

\* the X of a labelled form: what follows the label and its colon on the line
Labelled(lab) == Lits(lab) \o <<Cls({":", "fw:"}), Open, Star(Dot), Close>>
LabelledX(lab, m) == Strip(Group1(m, Search(Labelled(lab), m)))
\* the first pattern of the list that matches m, 0 if none does
FirstMatching(patterns, m) ==
  IF \E k \in 1..Len(patterns) : Search(patterns[k], m).ok
  THEN CHOOSE k \in 1..Len(patterns) :
         /\ Search(patterns[k], m).ok
         /\ \A j \in 1..(k - 1) : ~Search(patterns[j], m).ok
  ELSE 0

\* C7: 知识点：X yields X trimmed when 关于…的教学 does not match, and
\* 教学方法：X yields X trimmed when 使用…教学法 does not match; each extractor
\* returns the group of the first pattern, in list order, that matches.
C7_LabelledAsStated ==
  /\ "kp" \in extracted
       => /\ Search(Labelled(ZhiShiDian), message).ok /\ ~Search(KpAbout, message).ok
               => knowledge_point = Some(LabelledX(ZhiShiDian, message))
          /\ LET k == FirstMatching(KpPatterns, message) IN
             knowledge_point =
               IF k = 0 THEN None
               ELSE Some(Strip(Group1(message, Search(KpPatterns[k], message))))
  /\ "tm" \in extracted
       => /\ Search(Labelled(JiaoXueFangFa), message).ok /\ ~Search(TmUsing, message).ok
               => teaching_method = Some(LabelledX(JiaoXueFangFa, message))
          /\ LET k == FirstMatching(TmPatterns, message) IN
             teaching_method =
               IF k = 0 THEN None
               ELSE Some(Strip(Group1(message, Search(TmPatterns[k], message))))

=============================================================================
